---- MODULE Spec2Model ----
(***************************************************************************)
(* Model of coffeine/transfer_learning.py: the shape normalisation         *)
(* _check_data and the two transfer-learning transformers ReCenter and     *)
(* ReScale, together with the part of the pyriemann collaborators         *)
(* (encode_domains, TLCenter, TLStretch) that the transformers drive.      *)
(*                                                                         *)
(* SPD matrices are modelled for n_channels = 1: the 1 x 1 matrix [2^v] is *)
(* represented by the exact rational v (its logarithm).  In this           *)
(* representation the Riemannian and the log-Euclidean mean are both the   *)
(* arithmetic mean of the v's, the congruence M^(-1/2) S M^(-1/2) is the   *)
(* subtraction v - m, and the squared geodesic distance is (v - m)^2.      *)
(***************************************************************************)
EXTENDS Integers, Sequences, FiniteSets

VARIABLES cls, domains, metric, ctor, est, attr, last, fitX, nrm

vars == <<cls, domains, metric, ctor, est, attr, last, fitX, nrm>>

\* ------------------------------------------------------------------ bounds
\* longest matrix stack / label sequence / domain sequence
MaxN == 2
\* largest exponent v of a matrix [2^v]
MaxVal == 1
\* largest extent of one axis of an array given to the shape normalisation
MaxDim == 2

\* ------------------------------------------------------- exact rationals
\* A rational is <<numerator, denominator>> in lowest terms, denominator > 0.
Abs(i) == IF i < 0 THEN -i ELSE i

RECURSIVE GCD(_, _)
GCD(a, b) == IF b = 0 THEN a ELSE GCD(b, a % b)

Rat(n, d) ==
    LET g == GCD(Abs(n), Abs(d))
        s == IF d < 0 THEN -1 ELSE 1
    IN  <<(s * n) \div g, (s * d) \div g>>

RInt(i) == <<i, 1>>
RZero == RInt(0)
RAdd(a, b) == Rat(a[1] * b[2] + b[1] * a[2], a[2] * b[2])
RSub(a, b) == Rat(a[1] * b[2] - b[1] * a[2], a[2] * b[2])
RMul(a, b) == Rat(a[1] * b[1], a[2] * b[2])
RDivInt(a, k) == Rat(a[1], a[2] * k)

RECURSIVE RSum(_)
RSum(s) == IF s = <<>> THEN RZero ELSE RAdd(Head(s), RSum(Tail(s)))

\* ------------------------------------------------------------- utilities
Min(a, b) == IF a < b THEN a ELSE b
Range(s) == {s[i] : i \in DOMAIN s}

\* the subsequence of s at the (increasing) positions in idx: numpy's X[idx]
RECURSIVE Pick(_, _, _)
Pick(s, idx, i) ==
    IF i > Len(s) THEN <<>>
    ELSE IF i \in idx THEN <<s[i]>> \o Pick(s, idx, i + 1)
    ELSE Pick(s, idx, i + 1)

\* a dict is a set of <<key, value>> pairs with distinct keys
Keys(d) == {p[1] : p \in d}
Get(d, k) == (CHOOSE p \in d : p[1] = k)[2]

NoDict == {}

\* ---------------------------------------------------------------- inputs
\* An input container X.  kind "ndarray": a numeric array of the given shape.
\* kind "frame": a tabular container (it has .values and ndim 2) of shape
\* <<rows, columns>>; when dtype is "object" every cell holds a sub-array of
\* shape cell (ragged: the cells do not all have the same shape).  mats is
\* the data of a stack of 1 x 1 matrices, one exponent per matrix.
ArrayX(shape, mats) ==
    [kind |-> "ndarray", dtype |-> "float64", shape |-> shape, cell |-> <<>>,
     ragged |-> FALSE, mats |-> mats]

FrameX(dtype, shape, cell, ragged, mats) ==
    [kind |-> "frame", dtype |-> dtype, shape |-> shape, cell |-> cell,
     ragged |-> ragged, mats |-> mats]

ndim(X) == IF X.kind = "frame" THEN 2 ELSE Len(X.shape)

\* the value returned by a normalisation, or the absence of one
NoOut == [isNone |-> TRUE, shape |-> <<>>, mats |-> <<>>, same |-> FALSE]
Arr(shape, mats, same) ==
    [isNone |-> FALSE, shape |-> shape, mats |-> mats, same |-> same]

\* numpy.stack of the cells of an object-typed frame (after a singleton
\* column was dropped): its shape, or the error numpy raises
StackShape(X) ==
    IF X.shape[2] = 1 THEN <<X.shape[1]>> \o X.cell
    ELSE <<X.shape[1], X.shape[2]>>

StackFails(X) ==
    \/ X.shape[1] = 0
    \/ X.shape[2] = 1 /\ X.ragged

\* _check_data without the added leading axis: a 2-d stack is handed on as is
check_data_no_newaxis(X) ==
    IF ndim(X) = 3 THEN [status |-> "ok", out |-> Arr(X.shape, X.mats, TRUE)]
    ELSE IF X.kind # "frame"
    THEN [status |-> "AttributeError", out |-> NoOut]
    ELSE IF X.dtype = "object"
    THEN IF StackFails(X)
         THEN [status |-> "ValueError", out |-> NoOut]
         ELSE LET s == StackShape(X)
              IN  IF Len(s) = 2 /\ s[1] # s[2]
                  THEN [status |-> "AssertionError", out |-> NoOut]
                  ELSE [status |-> "ok", out |-> Arr(s, X.mats, FALSE)]
    ELSE [status |-> "ok", out |-> NoOut]

\* _check_data(X): [status, out]
check_data(X) ==
    IF ndim(X) = 3 THEN [status |-> "ok", out |-> Arr(X.shape, X.mats, TRUE)]
    ELSE IF X.kind # "frame"
    THEN [status |-> "AttributeError", out |-> NoOut]
    ELSE IF X.dtype = "object"
    THEN IF StackFails(X)
         THEN [status |-> "ValueError", out |-> NoOut]
         ELSE LET s == StackShape(X)
              IN  IF Len(s) = 2
                  THEN IF s[1] = s[2]
                       THEN [status |-> "ok",
                             out |-> Arr(<<1>> \o s, X.mats, FALSE)]
                       ELSE [status |-> "AssertionError", out |-> NoOut]
                  ELSE [status |-> "ok", out |-> Arr(s, X.mats, FALSE)]
    ELSE [status |-> "ok", out |-> NoOut]

\* ------------------------------------------- the shape normalisation alone
RECURSIVE Shapes(_)
Shapes(k) ==
    IF k = 0 THEN {<<>>}
    ELSE {<<d>> \o s : d \in 1..MaxDim, s \in Shapes(k - 1)}

ShapesUpTo(k) == UNION {Shapes(j) : j \in 0..k}

ShapeInputs ==
    {ArrayX(s, <<>>) : s \in ShapesUpTo(4) \ {<<>>}}
    \cup {FrameX("object", <<r, c>>, cell, rg, <<>>) :
            r \in 0..MaxDim, c \in 1..MaxDim, cell \in ShapesUpTo(3),
            rg \in BOOLEAN}
    \cup {FrameX("float64", <<r, c>>, <<>>, FALSE, <<>>) :
            r \in 0..MaxDim, c \in 1..MaxDim}

NoX == ArrayX(<<>>, <<>>)
NoNrm == [X |-> NoX, done |-> FALSE, status |-> "ok", out |-> NoOut]

\* ------------------------------------------------ collaborator: pyriemann
\* Domain tags in the order numpy.unique visits them.
TagOrder == <<"A", "B", "target_domain">>
TagIdx(t) == CHOOSE i \in DOMAIN TagOrder : TagOrder[i] = t
FirstTag(S) == CHOOSE t \in S : \A u \in S : TagIdx(t) <= TagIdx(u)

ValidMetrics == {"riemann", "logeuclid"}

\* a matrix of zeros, as numpy.zeros_like leaves it (not an SPD matrix)
ZeroMat == <<0, 0>>

\* encode_domains(X, y, domain): one combined key per zipped pair; X is
\* handed back untouched
encode_domains(X, y, domain) ==
    [i \in 1..Min(Len(domain), Len(y)) |-> <<domain[i], y[i]>>]

\* decode_domains: the domain tag of every combined key
decode_domains(y_enc) == [i \in DOMAIN y_enc |-> y_enc[i][1]]

IdxOf(doms, d) == {i \in DOMAIN doms : doms[i] = d}

\* number of matrices of a normalised stack
NMat(X) == X.shape[1]

\* the error, if any, of indexing the stack X with a boolean mask over doms
IndexStatus(X, doms) ==
    IF X.isNone THEN "TypeError"
    ELSE IF Len(doms) # NMat(X) THEN "IndexError"
    ELSE "ok"

\* mean of a non-empty set of matrices under a valid metric
MeanOf(Xd) == RDivInt(RSum(Xd), Len(Xd))

\* Whitening(metric).fit(Xd).transform(S): the congruence by mean^(-1/2)
Whiten(mean, v) == RSub(v, mean)

\* an estimator object: a TLCenter (means = recenter_) or a TLStretch
\* (means = _means, disps = dispersions_); fitted: fit has created the dicts
NoEst ==
    [set |-> FALSE, cls |-> "", target_domain |-> "", centered_data |-> FALSE,
     metric |-> "", fitted |-> FALSE, means |-> NoDict, disps |-> NoDict]

TLCenter(target_domain, m) ==
    [set |-> TRUE, cls |-> "TLCenter", target_domain |-> target_domain,
     centered_data |-> FALSE, metric |-> m, fitted |-> FALSE,
     means |-> NoDict, disps |-> NoDict]

TLStretch(target_domain, centered_data, m) ==
    [set |-> TRUE, cls |-> "TLStretch", target_domain |-> target_domain,
     centered_data |-> centered_data, metric |-> m, fitted |-> FALSE,
     means |-> NoDict, disps |-> NoDict]

\* TLCenter.fit(X, y_enc): [status, est].  Every failure happens while the
\* first domain is handled, so a failed fit leaves an empty recenter_.
TLCenter_fit(e, X, y_enc) ==
    LET doms == decode_domains(y_enc)
        uniq == Range(doms)
        e0 == [e EXCEPT !.fitted = TRUE, !.means = NoDict]
        st == IF uniq = {} THEN "ok"
              ELSE IF IndexStatus(X, doms) # "ok" THEN IndexStatus(X, doms)
              ELSE IF e.metric \notin ValidMetrics THEN "ValueError"
              ELSE "ok"
    IN  IF st # "ok" THEN [status |-> st, est |-> e0]
        ELSE [status |-> "ok",
              est |-> [e0 EXCEPT !.means =
                         {<<d, MeanOf(Pick(X.mats, IdxOf(doms, d), 1))>> :
                            d \in uniq}]]

\* TLCenter.transform(X): re-center with the mean of the target domain
TLCenter_transform(e, X) ==
    IF e.target_domain \notin Keys(e.means)
    THEN [status |-> "KeyError", out |-> <<>>]
    ELSE [status |-> "ok",
          out |-> [i \in DOMAIN X.mats |->
                     Whiten(Get(e.means, e.target_domain), X.mats[i])]]

\* TLCenter.fit_transform(X, y_enc): fit, then every domain's matrices are
\* re-centered with that domain's mean into a zero-initialised copy
TLCenter_fit_transform(e, X, y_enc) ==
    LET f == TLCenter_fit(e, X, y_enc)
        doms == decode_domains(y_enc)
    IN  IF f.status # "ok" THEN [status |-> f.status, est |-> f.est, out |-> <<>>]
        ELSE [status |-> "ok", est |-> f.est,
              out |-> IF X.isNone THEN <<>>
                      ELSE [i \in DOMAIN X.mats |->
                              IF i \in DOMAIN doms
                              THEN Whiten(Get(f.est.means, doms[i]), X.mats[i])
                              ELSE ZeroMat]]

\* squared distance of the matrix v to the matrix m
Dist2(v, m) == RMul(RSub(v, m), RSub(v, m))

\* dispersion of the matrices Xd around m: the mean squared distance
Dispersion(Xd, m) ==
    RDivInt(RSum([i \in DOMAIN Xd |-> Dist2(Xd[i], m)]), Len(Xd))

\* center by m, raise to the power sqrt(1 / disp), move back to m: the
\* matrix 2^(m + (v - m) / sqrt(disp)), kept as <<m, v - m, disp>> (disp may
\* be 0: numpy divides by it without raising)
Stretch(v, m, disp) == <<m, RSub(v, m), disp>>

\* TLStretch.fit(X, y_enc): [status, est].  A domain's mean is stored before
\* its distances are computed, so an unknown metric leaves the first
\* domain's mean behind and no dispersion.
TLStretch_fit(e, X, y_enc) ==
    LET doms == decode_domains(y_enc)
        uniq == Range(doms)
        e0 == [e EXCEPT !.fitted = TRUE, !.means = NoDict, !.disps = NoDict]
        MeanD(d) == IF e.centered_data THEN RZero
                    ELSE MeanOf(Pick(X.mats, IdxOf(doms, d), 1))
    IN  IF X.isNone THEN [status |-> "TypeError", est |-> e]
        ELSE IF NMat(X) = 0 THEN [status |-> "IndexError", est |-> e]
        ELSE IF uniq = {} THEN [status |-> "ok", est |-> e0]
        ELSE IF IndexStatus(X, doms) # "ok"
        THEN [status |-> IndexStatus(X, doms), est |-> e0]
        ELSE IF e.metric \notin ValidMetrics
        THEN [status |-> "ValueError",
              est |-> [e0 EXCEPT !.means =
                         {<<FirstTag(uniq), MeanD(FirstTag(uniq))>>}]]
        ELSE [status |-> "ok",
              est |-> [e0 EXCEPT
                         !.means = {<<d, MeanD(d)>> : d \in uniq},
                         !.disps = {<<d, Dispersion(Pick(X.mats, IdxOf(doms, d), 1),
                                                    MeanD(d))>> : d \in uniq}]]

\* TLStretch.transform(X): stretch with the target domain's mean and dispersion
TLStretch_transform(e, X) ==
    IF e.target_domain \notin Keys(e.means) \/ e.target_domain \notin Keys(e.disps)
    THEN [status |-> "KeyError", out |-> <<>>]
    ELSE [status |-> "ok",
          out |-> [i \in DOMAIN X.mats |->
                     Stretch(X.mats[i], Get(e.means, e.target_domain),
                             Get(e.disps, e.target_domain))]]

\* TLStretch.fit_transform(X, y_enc): fit, then every domain's matrices are
\* stretched with that domain's own mean and dispersion
TLStretch_fit_transform(e, X, y_enc) ==
    LET f == TLStretch_fit(e, X, y_enc)
        doms == decode_domains(y_enc)
    IN  IF f.status # "ok" THEN [status |-> f.status, est |-> f.est, out |-> <<>>]
        ELSE [status |-> "ok", est |-> f.est,
              out |-> [i \in DOMAIN X.mats |->
                         IF i \in DOMAIN doms
                         THEN Stretch(X.mats[i], Get(f.est.means, doms[i]),
                                      Get(f.est.disps, doms[i]))
                         ELSE ZeroMat]]

\* ------------------------------------------------------- the transformers
\* The instance: cls (ReCenter or ReScale), its constructor parameters
\* domains and metric, est (the attribute re_center_ / re_scale_) and attr
\* (the attribute means_ / dispersions_).
NoAttr == [set |-> FALSE, val |-> NoDict]

\* what a call leaves behind: the instance attributes, the error raised
\* ("ok": none), the step that raised it, the array returned, the caller's
\* container after the call, and what the call returned ("self", "array")
\* or that it raised ("raise")
Res(e, a, status, stage, out, arg, ret) ==
    [est |-> e, attr |-> a, status |-> status, stage |-> stage, out |-> out,
     arg |-> arg, ret |-> ret]

\* a ReCenter estimator created with the default metric instead of self.metric
ReCenter_estimator_default == TLCenter("target_domain", "riemann")

\* the estimator ReCenter creates in each of its methods
ReCenter_estimator == TLCenter("target_domain", metric)

\* a ReScale estimator told that its input is already centered
ReScale_estimator_centered == TLStretch("target_domain", TRUE, metric)

\* the estimator ReScale creates in each of its methods
ReScale_estimator == TLStretch("target_domain", FALSE, metric)

\* the placeholder labels and tags of transform: [0]*n and ['target_domain']*n
Placeholder(n, v) == [i \in 1..n |-> v]

\* fit that tags every sample with the synthetic target domain
ReCenter_fit_target(X, y) ==
    LET c == check_data(X)
        y_enc == encode_domains(c.out, Placeholder(Len(X.mats), 0),
                                Placeholder(Len(X.mats), "target_domain"))
        f == TLCenter_fit(ReCenter_estimator, c.out, y_enc)
    IN  IF c.status # "ok" THEN Res(est, attr, c.status, "normalize", <<>>, X, "raise")
        ELSE IF f.status # "ok"
        THEN Res(f.est, attr, f.status, "estimator", <<>>, X, "raise")
        ELSE Res(f.est, [set |-> TRUE, val |-> f.est.means], "ok", "done", <<>>, X, "self")

\* fit that stores means_ from the estimator before the estimator's fit is
\* known to have succeeded
ReCenter_fit_store_first(X, y) ==
    LET c == check_data(X)
        y_enc == encode_domains(c.out, y, domains)
        f == TLCenter_fit(ReCenter_estimator, c.out, y_enc)
    IN  IF c.status # "ok" THEN Res(est, attr, c.status, "normalize", <<>>, X, "raise")
        ELSE IF f.status # "ok"
        THEN Res(f.est, [set |-> TRUE, val |-> f.est.means], f.status, "estimator",
                 <<>>, X, "raise")
        ELSE Res(f.est, [set |-> TRUE, val |-> f.est.means], "ok", "done", <<>>, X, "self")

ReCenter_fit(X, y) ==
    LET c == check_data(X)
        y_enc == encode_domains(c.out, y, domains)
        f == TLCenter_fit(ReCenter_estimator, c.out, y_enc)
    IN  IF c.status # "ok" THEN Res(est, attr, c.status, "normalize", <<>>, X, "raise")
        ELSE IF f.status # "ok"
        THEN Res(f.est, attr, f.status, "estimator", <<>>, X, "raise")
        ELSE Res(f.est, [set |-> TRUE, val |-> f.est.means], "ok", "done", <<>>, X, "self")

\* transform that re-uses an estimator already fitted on a target domain
ReCenter_transform_cached(X, y) ==
    LET c == check_data(X)
        n_sample == NMat(c.out)
        y_enc == encode_domains(c.out, Placeholder(n_sample, 0),
                                Placeholder(n_sample, "target_domain"))
        f == TLCenter_fit_transform(ReCenter_estimator, c.out, y_enc)
        t == TLCenter_transform(est, c.out)
    IN  IF c.status # "ok" THEN Res(est, attr, c.status, "normalize", <<>>, X, "raise")
        ELSE IF c.out.isNone
        THEN Res(est, attr, "AttributeError", "count", <<>>, X, "raise")
        ELSE IF est.set /\ "target_domain" \in Keys(est.means)
        THEN Res(est, attr, "ok", "done", t.out, X, "array")
        ELSE IF f.status # "ok"
        THEN Res(f.est, attr, f.status, "estimator", <<>>, X, "raise")
        ELSE Res(f.est, attr, "ok", "done", f.out, X, "array")

\* transform that groups the samples by the constructor's domains
ReCenter_transform_domains(X, y) ==
    LET c == check_data(X)
        n_sample == NMat(c.out)
        y_enc == encode_domains(c.out, Placeholder(n_sample, 0), domains)
        f == TLCenter_fit_transform(ReCenter_estimator, c.out, y_enc)
    IN  IF c.status # "ok" THEN Res(est, attr, c.status, "normalize", <<>>, X, "raise")
        ELSE IF c.out.isNone
        THEN Res(est, attr, "AttributeError", "count", <<>>, X, "raise")
        ELSE IF f.status # "ok"
        THEN Res(f.est, attr, f.status, "estimator", <<>>, X, "raise")
        ELSE Res(f.est, attr, "ok", "done", f.out, X, "array")

\* transform that also stores the target mean in means_
ReCenter_transform_store(X, y) ==
    LET c == check_data(X)
        n_sample == NMat(c.out)
        y_enc == encode_domains(c.out, Placeholder(n_sample, 0),
                                Placeholder(n_sample, "target_domain"))
        f == TLCenter_fit_transform(ReCenter_estimator, c.out, y_enc)
    IN  IF c.status # "ok" THEN Res(est, attr, c.status, "normalize", <<>>, X, "raise")
        ELSE IF c.out.isNone
        THEN Res(est, attr, "AttributeError", "count", <<>>, X, "raise")
        ELSE IF f.status # "ok"
        THEN Res(f.est, attr, f.status, "estimator", <<>>, X, "raise")
        ELSE Res(f.est, [set |-> TRUE, val |-> f.est.means], "ok", "done", f.out, X,
                 "array")

ReCenter_transform(X, y) ==
    LET c == check_data(X)
        n_sample == NMat(c.out)
        y_enc == encode_domains(c.out, Placeholder(n_sample, 0),
                                Placeholder(n_sample, "target_domain"))
        f == TLCenter_fit_transform(ReCenter_estimator, c.out, y_enc)
    IN  IF c.status # "ok" THEN Res(est, attr, c.status, "normalize", <<>>, X, "raise")
        ELSE IF c.out.isNone
        THEN Res(est, attr, "AttributeError", "count", <<>>, X, "raise")
        ELSE IF f.status # "ok"
        THEN Res(f.est, attr, f.status, "estimator", <<>>, X, "raise")
        ELSE Res(f.est, attr, "ok", "done", f.out, X, "array")

\* fit_transform that treats its input as one single domain
ReCenter_fit_transform_single(X, y) ==
    LET c == check_data(X)
        y_enc == encode_domains(c.out, y, Placeholder(Len(domains), "target_domain"))
        f == TLCenter_fit_transform(ReCenter_estimator, c.out, y_enc)
    IN  IF c.status # "ok" THEN Res(est, attr, c.status, "normalize", <<>>, X, "raise")
        ELSE IF f.status # "ok"
        THEN Res(f.est, attr, f.status, "estimator", <<>>, X, "raise")
        ELSE Res(f.est, attr, "ok", "done", f.out, X, "array")

ReCenter_fit_transform(X, y) ==
    LET c == check_data(X)
        y_enc == encode_domains(c.out, y, domains)
        f == TLCenter_fit_transform(ReCenter_estimator, c.out, y_enc)
    IN  IF c.status # "ok" THEN Res(est, attr, c.status, "normalize", <<>>, X, "raise")
        ELSE IF f.status # "ok"
        THEN Res(f.est, attr, f.status, "estimator", <<>>, X, "raise")
        ELSE Res(f.est, attr, "ok", "done", f.out, X, "array")

ReScale_fit(X, y) ==
    LET c == check_data(X)
        y_enc == encode_domains(c.out, y, domains)
        f == TLStretch_fit(ReScale_estimator, c.out, y_enc)
    IN  IF c.status # "ok" THEN Res(est, attr, c.status, "normalize", <<>>, X, "raise")
        ELSE IF f.status # "ok"
        THEN Res(f.est, attr, f.status, "estimator", <<>>, X, "raise")
        ELSE Res(f.est, [set |-> TRUE, val |-> f.est.disps], "ok", "done", <<>>, X, "self")

ReScale_transform(X, y) ==
    LET c == check_data(X)
        n_sample == NMat(c.out)
        y_enc == encode_domains(c.out, Placeholder(n_sample, 0),
                                Placeholder(n_sample, "target_domain"))
        f == TLStretch_fit(ReScale_estimator, c.out, y_enc)
        t == TLStretch_transform(f.est, c.out)
    IN  IF c.status # "ok" THEN Res(est, attr, c.status, "normalize", <<>>, X, "raise")
        ELSE IF c.out.isNone
        THEN Res(est, attr, "AttributeError", "count", <<>>, X, "raise")
        ELSE IF f.status # "ok"
        THEN Res(f.est, attr, f.status, "estimator", <<>>, X, "raise")
        ELSE IF t.status # "ok"
        THEN Res(f.est, attr, t.status, "estimator", <<>>, X, "raise")
        ELSE Res(f.est, attr, "ok", "done", t.out, X, "array")

ReScale_fit_transform(X, y) ==
    LET c == check_data(X)
        y_enc == encode_domains(c.out, y, domains)
        f == TLStretch_fit_transform(ReScale_estimator, c.out, y_enc)
    IN  IF c.status # "ok" THEN Res(est, attr, c.status, "normalize", <<>>, X, "raise")
        ELSE IF f.status # "ok"
        THEN Res(f.est, attr, f.status, "estimator", <<>>, X, "raise")
        ELSE Res(f.est, attr, "ok", "done", f.out, X, "array")

\* ------------------------------------------------------------ state machine
Tags == {"A", "B"}
Metrics == ValidMetrics \cup {"chebyshev"}

RECURSIVE SeqsOfLen(_, _)
SeqsOfLen(S, k) ==
    IF k = 0 THEN {<<>>}
    ELSE {<<x>> \o s : x \in S, s \in SeqsOfLen(S, k - 1)}

MatSeqs == UNION {SeqsOfLen({RInt(v) : v \in 0..MaxVal}, k) : k \in 0..MaxN}
DomainSeqs == UNION {SeqsOfLen(Tags, k) : k \in 1..MaxN}
\* label sequences 1, 0, 1, ... of every length
LabelSeqs == {[i \in 1..k |-> i % 2] : k \in 1..MaxN}

\* the containers the methods are called with: every stack of 1 x 1 matrices
\* as a 3-d array, and five other containers
FrameOfMatrix == FrameX("object", <<1, 1>>, <<1, 1>>, FALSE, <<RInt(1)>>)
FrameOfVector == FrameX("object", <<1, 1>>, <<1>>, FALSE, <<RInt(1)>>)
FrameOfVectors == FrameX("object", <<2, 1>>, <<1>>, FALSE, <<RZero, RZero>>)
FrameOfNumbers == FrameX("float64", <<1, 1>>, <<>>, FALSE, <<RZero>>)
Array2d == ArrayX(<<1, 1>>, <<RZero>>)

InputX ==
    {ArrayX(<<Len(m), 1, 1>>, m) : m \in MatSeqs}
    \cup {FrameOfMatrix, FrameOfVector, FrameOfVectors, FrameOfNumbers, Array2d}

NoLast ==
    [op |-> "init", X |-> NoX, status |-> "ok", stage |-> "done", out |-> <<>>,
     arg |-> NoX, ret |-> ""]
NoCall == [set |-> FALSE, X |-> NoX]

Init ==
    /\ cls \in {"ReCenter", "ReScale"}
    /\ domains \in DomainSeqs
    /\ metric \in Metrics
    /\ ctor = [domains |-> domains, metric |-> metric]
    /\ est = NoEst
    /\ attr = NoAttr
    /\ last = NoLast
    /\ fitX = NoCall
    /\ nrm = NoNrm

\* a call of method op with container X that left r behind; fitX remembers
\* the container of the last successful fit
Apply(op, X, r) ==
    /\ est' = r.est
    /\ attr' = r.attr
    /\ last' = [op |-> op, X |-> X, status |-> r.status, stage |-> r.stage,
                out |-> r.out, arg |-> r.arg, ret |-> r.ret]
    /\ fitX' = IF op = "fit" /\ r.status = "ok"
               THEN [set |-> TRUE, X |-> X] ELSE fitX
    /\ UNCHANGED <<cls, domains, metric, ctor, nrm>>

Call_ReCenter_fit ==
    /\ cls = "ReCenter"
    /\ \E X \in InputX, y \in LabelSeqs :
         \E r \in {ReCenter_fit(X, y)} : Apply("fit", X, r)

Call_ReCenter_transform ==
    /\ cls = "ReCenter"
    /\ \E X \in InputX, y \in LabelSeqs :
         \E r \in {ReCenter_transform(X, y)} : Apply("transform", X, r)

Call_ReCenter_fit_transform ==
    /\ cls = "ReCenter"
    /\ \E X \in InputX, y \in LabelSeqs :
         \E r \in {ReCenter_fit_transform(X, y)} : Apply("fit_transform", X, r)

Call_ReScale_fit ==
    /\ cls = "ReScale"
    /\ \E X \in InputX, y \in LabelSeqs :
         \E r \in {ReScale_fit(X, y)} : Apply("fit", X, r)

Call_ReScale_transform ==
    /\ cls = "ReScale"
    /\ \E X \in InputX, y \in LabelSeqs :
         \E r \in {ReScale_transform(X, y)} : Apply("transform", X, r)

Call_ReScale_fit_transform ==
    /\ cls = "ReScale"
    /\ \E X \in InputX, y \in LabelSeqs :
         \E r \in {ReScale_fit_transform(X, y)} : Apply("fit_transform", X, r)

Next ==
    \/ Call_ReCenter_fit
    \/ Call_ReCenter_transform
    \/ Call_ReCenter_fit_transform
    \/ Call_ReScale_fit
    \/ Call_ReScale_transform
    \/ Call_ReScale_fit_transform

Spec == Init /\ [][Next]_vars

\* ---- the shape normalisation as a pure function of its input
InitShape ==
    /\ cls = "ReCenter"
    /\ domains = <<"A">>
    /\ metric = "riemann"
    /\ ctor = [domains |-> domains, metric |-> metric]
    /\ est = NoEst
    /\ attr = NoAttr
    /\ last = NoLast
    /\ fitX = NoCall
    /\ nrm \in {[NoNrm EXCEPT !.X = X] : X \in ShapeInputs}

Normalize ==
    /\ ~nrm.done
    /\ nrm' = [X |-> nrm.X, done |-> TRUE, status |-> check_data(nrm.X).status,
               out |-> check_data(nrm.X).out]
    /\ UNCHANGED <<cls, domains, metric, ctor, est, attr, last, fitX>>

NextShape == Normalize

SpecShape == InitShape /\ [][NextShape]_vars

\* ================================================================= claims
\* quantities the properties below are stated with, computed from the
\* container of a call alone
OwnMean(m) == RDivInt(RSum(m), Len(m))
OwnDisp(m) ==
    RDivInt(RSum([i \in DOMAIN m |->
                    RMul(RSub(m[i], OwnMean(m)), RSub(m[i], OwnMean(m)))]), Len(m))
DispToIdentity(m) == RDivInt(RSum([i \in DOMAIN m |-> RMul(m[i], m[i])]), Len(m))

\* the samples the constructor's domains assign to d among the first n, and
\* the domains present among the first n
GroupOf(d, n) == {i \in 1..n : domains[i] = d}
Present(n) == {domains[i] : i \in 1..n}
Members(m, d) == Pick(m, GroupOf(d, Len(m)), 1)

Called(op) == last.op = op /\ last.status = "ok"

\* C1: transform independence from fit.  Whatever was called before on the
\* instance, and whatever its domains, a successful transform(X) returns a
\* value computed from X alone: ReCenter returns every matrix re-centered by
\* the mean of X, ReScale every matrix stretched around the mean of X by the
\* dispersion of X.
C1_TransformFromOwnInput ==
    Called("transform") =>
        LET m == last.X.mats
        IN  /\ Len(last.out) = Len(m)
            /\ \A i \in DOMAIN m :
                 /\ cls = "ReCenter" => last.out[i] = RSub(m[i], OwnMean(m))
                 /\ cls = "ReScale" =>
                      last.out[i] = <<OwnMean(m), RSub(m[i], OwnMean(m)), OwnDisp(m)>>

\* C1 witness: a transform succeeded on an instance that an earlier fit left
\* with stored means, none of which is the mean of the transform's input
C1_Witness ==
    /\ cls = "ReCenter"
    /\ Called("transform")
    /\ Len(last.X.mats) = 2
    /\ attr.set
    /\ attr.val # {}
    /\ \A p \in attr.val : p[2] # OwnMean(last.X.mats)

\* C8: shape normalisation.  A 3-d input is returned as it is; the cells of
\* a one-column object frame are stacked to <<rows>> \o cell shape; a 2-d
\* stack must be square and gets a leading axis of size 1; hence every
\* result for a stack of square matrices, a column of square matrices or a
\* 2-d stack has 3 axes, the last two equal.
SupportedShape(X) ==
    \/ ndim(X) = 3 /\ X.shape[2] = X.shape[3]
    \/ /\ X.kind = "frame"
       /\ X.dtype = "object"
       /\ \/ X.shape[2] = 1 /\ ~X.ragged /\ Len(X.cell) = 2 /\ X.cell[1] = X.cell[2]
          \/ X.shape[2] = 1 /\ ~X.ragged /\ Len(X.cell) = 1
          \/ X.shape[2] # 1

C8_ShapeNormalization ==
    nrm.done =>
        /\ ndim(nrm.X) = 3 =>
             nrm.status = "ok" /\ nrm.out.same /\ nrm.out.shape = nrm.X.shape
        /\ (nrm.X.kind = "frame" /\ nrm.X.dtype = "object" /\ nrm.status = "ok") =>
             LET stacked == IF nrm.X.shape[2] = 1
                            THEN <<nrm.X.shape[1]>> \o nrm.X.cell
                            ELSE nrm.X.shape
             IN  IF Len(stacked) = 2
                 THEN stacked[1] = stacked[2] /\ nrm.out.shape = <<1>> \o stacked
                 ELSE nrm.out.shape = stacked
        /\ (SupportedShape(nrm.X) /\ nrm.status = "ok") =>
             /\ ~nrm.out.isNone
             /\ Len(nrm.out.shape) = 3
             /\ nrm.out.shape[2] = nrm.out.shape[3]

\* C8 witness: a single sample whose stack is 2-d came back as <<1, c, c>>
C8_Witness ==
    /\ nrm.done
    /\ nrm.status = "ok"
    /\ nrm.X.kind = "frame"
    /\ nrm.X.shape = <<2, 2>>
    /\ nrm.out.shape = <<1, 2, 2>>

\* C9: a container that cannot be normalised into a 3-d stack makes every
\* method raise at the normalisation step.
Unnormalizable == {FrameOfVectors, FrameOfNumbers, Array2d}

C9_ShapeErrorFailsFast ==
    (last.op # "init" /\ last.X \in Unnormalizable) =>
        last.status # "ok" /\ last.stage = "normalize"

\* C10: the constructor's configuration is never changed, and every
\* estimator an instance holds was created with the instance's metric and
\* the synthetic target tag.
C10_ConfigurationKept ==
    /\ domains = ctor.domains
    /\ metric = ctor.metric
    /\ est.set => est.metric = ctor.metric /\ est.target_domain = "target_domain"

\* C10 witness: an instance configured with a metric other than the default
\* holds an estimator after a failed call
C10_Witness ==
    /\ est.set
    /\ ctor.metric # "riemann"
    /\ last.status # "ok"
    /\ Len(ctor.domains) = 2

\* two domains present among the samples of m have different means
MeansDiffer(m) ==
    \E d1 \in Present(Len(m)), d2 \in Present(Len(m)) :
        OwnMean(Members(m, d1)) # OwnMean(Members(m, d2))

\* C2: fit_transform against fit-then-transform.  On an instance whose last
\* fit was on X, a transform(X) and the fit_transform(X, y) called right
\* after it return different arrays whenever X holds two domains with
\* different means: fit_transform re-centers every sample by the mean of
\* its own domain, transform re-centers all of them by the one mean of X.
C2_FitTransformDiverges ==
    [][ ( /\ cls = "ReCenter"
          /\ Called("transform")
          /\ fitX.set
          /\ fitX.X = last.X
          /\ last'.op = "fit_transform"
          /\ last'.status = "ok"
          /\ last'.X = last.X
          /\ MeansDiffer(last.X.mats) )
        => /\ last'.out # last.out
           /\ \A i \in DOMAIN last.X.mats :
                /\ last'.out[i] =
                     RSub(last.X.mats[i], OwnMean(Members(last.X.mats, domains[i])))
                /\ last.out[i] = RSub(last.X.mats[i], OwnMean(last.X.mats)) ]_vars

\* C2 witness: fit_transform succeeded on the container of the last fit,
\* which holds two domains with different means
C2_Witness ==
    /\ cls = "ReCenter"
    /\ Called("fit_transform")
    /\ fitX.set
    /\ fitX.X = last.X
    /\ Len(last.X.mats) = Len(domains)
    /\ MeansDiffer(last.X.mats)

C4_FitStoresDomainMeans ==
    (cls = "ReCenter" /\ Called("fit")) =>
        LET m == last.X.mats
        IN  /\ attr.set
            /\ attr.val = {<<d, OwnMean(Members(m, d))>> : d \in Present(Len(m))}
            /\ "target_domain" \notin Keys(attr.val)
            /\ last.ret = "self"
            /\ last.arg = last.X

\* C4 witness: a fit over two domains with different means
C4_Witness ==
    /\ cls = "ReCenter"
    /\ Called("fit")
    /\ Cardinality(attr.val) = 2
    /\ MeansDiffer(last.X.mats)

FreshMeans(op, m) ==
    IF op = "transform"
    THEN IF Len(m) = 0 THEN {} ELSE {<<"target_domain", OwnMean(m)>>}
    ELSE {<<d, OwnMean(Members(m, d))>> : d \in Present(Len(m))}

FreshDisps(op, m) ==
    IF op = "transform"
    THEN {<<"target_domain", OwnDisp(m)>>}
    ELSE {<<d, OwnDisp(Members(m, d))>> : d \in Present(Len(m))}

\* C6 as stated: after a successful fit or transform the stored means_ /
\* dispersions_ are those computed from that call's input.
C6_StoredOverwritten ==
    (Called("fit") \/ Called("transform")) =>
        /\ attr.set
        /\ cls = "ReCenter" => attr.val = FreshMeans(last.op, last.X.mats)
        /\ cls = "ReScale" => attr.val = FreshDisps(last.op, last.X.mats)

\* C6 amended: every successful fit, transform and fit_transform replaces
\* the estimator re_center_ / re_scale_ by one fitted on that call's input
\* alone; means_ / dispersions_ is overwritten by fit only, transform and
\* fit_transform leave it as it was.
C6_EstimatorOverwritten ==
    [][ (last'.op # "init" /\ last'.status = "ok") =>
          /\ est'.set
          /\ est'.fitted
          /\ cls = "ReCenter" =>
               est'.means = FreshMeans(last'.op, last'.X.mats) /\ est'.disps = {}
          /\ cls = "ReScale" =>
               /\ est'.means = FreshMeans(last'.op, last'.X.mats)
               /\ est'.disps = FreshDisps(last'.op, last'.X.mats)
          /\ last'.op = "fit" =>
               /\ attr'.set
               /\ attr'.val = IF cls = "ReCenter" THEN est'.means ELSE est'.disps
          /\ last'.op # "fit" => attr' = attr ]_vars

\* C6 witness: after a transform the estimator holds the target mean of the
\* transform's input while means_ still holds the means of an earlier fit
C6_Witness ==
    /\ cls = "ReCenter"
    /\ Called("transform")
    /\ attr.set
    /\ attr.val # {}
    /\ est.means = {<<"target_domain", OwnMean(last.X.mats)>>}
    /\ attr.val # est.means

\* C7 as stated: a failing call leaves the state of the instance as it was.
C7_AllOrNothing ==
    [][ last'.status # "ok" => est' = est /\ attr' = attr ]_vars

\* C7 amended: a failing call raises to the caller and returns nothing, and
\* leaves means_ / dispersions_ as it was; re_center_ / re_scale_ is as it
\* was when the call fails before the estimator is created, and is that new
\* estimator, without a completed fit, when the call fails inside it.
C7_FailureKeepsStored ==
    [][ last'.status # "ok" =>
          /\ last'.ret = "raise"
          /\ last'.out = <<>>
          /\ attr' = attr
          /\ last'.stage \in {"normalize", "count", "estimator"}
          /\ last'.stage # "estimator" => est' = est
          /\ last'.stage = "estimator" =>
               /\ est'.set
               /\ est'.metric = metric
               /\ est'.target_domain = "target_domain"
               /\ est'.disps = {}
               /\ est'.cls = "TLCenter" => est'.means = {} ]_vars

\* C7 witness: a call failed inside the estimator of an instance that an
\* earlier fit had left with stored means; the estimator is unfitted
C7_Witness ==
    /\ cls = "ReCenter"
    /\ last.status # "ok"
    /\ last.stage = "estimator"
    /\ attr.set
    /\ attr.val # {}
    /\ est.set
    /\ est.means = {}
====
